---- MODULE Spec2Model ----
(***************************************************************************)
(* The tool-calling orchestration loop of vibedb:                          *)
(*   AgentWithTools.astream / _execute_tool_call                           *)
(*       (src/agents/core/agent_with_tools.py)                             *)
(*   ChatMessage / ChatRole (src/agents/core/chat_context.py)              *)
(*   ToolCall (src/agents/core/tools.py)                                   *)
(*   the tools of AgentWithSQLTools                                        *)
(*       (src/agents/builtins/agent_with_sql_tools.py)                     *)
(*   the caller Client.execute (src/sdk/client.py)                         *)
(*                                                                         *)
(* A text is a sequence of characters, so that "" is <<>> and += is \o.    *)
(* One agent is modelled; its respond calls (astream) follow one another.  *)
(***************************************************************************)
EXTENDS Naturals, Sequences, FiniteSets

VARIABLES
    messages,      \* self._messages: the conversation history
    pc,            \* where the astream coroutine stands
    response,      \* local `response` of the current pass
    tool_calls,    \* local `tool_calls` of the current pass
    task,          \* the awaitables handed to asyncio.gather, one per tool call
    gather,        \* the gather await of the current pass
    firstExc,      \* the exception gather propagates: the first one raised
    tc_responses,  \* local `tc_responses`
    k,             \* position of the for loop of lines 37-39
    out,           \* what the current call has yielded to its caller so far
    outcome,       \* how the latest call ended
    calls,         \* respond calls issued so far
    passes,        \* streaming passes of the current call
    chunks,        \* chunks consumed from the stream of the current pass
    orphans,       \* executions still running after their gather has raised
    passHist,      \* the history as the current pass found it (after line 20)
    tools,         \* self._tools
    streamTools,   \* the tools argument of the latest self._llm.astream call
    pc2,           \* a second, overlapping astream call on the same agent:
    response2,     \*   its position, its local `response`,
    chunks2,       \*   the chunks it consumed
    outcome2       \*   and how it ended

\* the locals of the overlapping call
frame2 == <<pc2, response2, chunks2, outcome2>>

vars == <<messages, pc, response, tool_calls, task, gather, firstExc,
          tc_responses, k, out, outcome, calls, passes, chunks, orphans,
          passHist, tools, streamTools, frame2>>

----------------------------------------------------------------------------
(* Bounds of the model. *)

MaxCalls == 2
MaxChunks == 2
MaxPasses == 2

----------------------------------------------------------------------------
(* Data model. *)

\* ChatRole
ChatRole == {"USER", "ASSISTANT", "SYSTEM"}

\* INSTRUCTIONS, the text given to AgentWithTools.__init__
INSTRUCTIONS == <<"I">>

\* the query texts Client.execute is called with
Queries == {<<"q">>}

\* the role of the message Client.execute hands to astream
CallerRole == "USER"

\* the text chunks a model stream yields; the empty string is one of them
Fragments == {<<>>, <<"a">>, <<"b">>}

\* A content is a str or a list of ToolCall; the model tags which.
Str(t) == [kind |-> "str", val |-> t]
ToolCallList(tcs) == [kind |-> "list", val |-> tcs]

\* ChatMessage(role=..., content=...) as a value
ChatMessage(role, content) == [role |-> role, content |-> content]

\* ChatMessage.content: str | ToolCall -- what pydantic accepts as content.
\* A list of ToolCall is neither a str nor a ToolCall.
ValidContent(c) == c.kind \in {"str", "toolcall"}

\* the methods of AgentWithSQLTools marked @tool, with their parameters
\* (self excluded)
Params(name) ==
    CASE name = "execute_query" -> {"query"}
      [] name = "list_tables" -> {}
      [] name = "describe_table" -> {"table_name"}
      [] name = "list_schemas" -> {}
      [] OTHER -> {}

ToolMethods == {"execute_query", "list_tables", "describe_table", "list_schemas"}

\* self._tools: one descriptor per attribute carrying the tool mark
GetToolsFromDecoratedMethods ==
    {[name |-> n, input_schema |-> Params(n)] : n \in ToolMethods}

\* A ToolCall object of the stream that carries no `name` attribute
\* (ToolCall declares id, tool, args, response only).
NoName == "<no name attribute>"

\* what a tool body returns: its rows, or the error text of its own except
BodyOutcomes == {"ok", "error"}

\* the invocations the model backend requests (name, argument names)
Requests ==
    { <<"list_tables", {}>>,
      <<"describe_table", {"table_name"}>>,
      <<"describe_table", {}>>,
      <<"no_such_tool", {}>>,
      <<NoName, {}>> }

\* the response a ToolCall is constructed with by the backend (a required str)
Placeholder == [kind |-> "placeholder", of |-> 0]

\* ids are assigned by the backend, unique per invocation
NewId == calls * 100 + passes * 10 + Len(tool_calls) + 1

NewToolCall(req) ==
    [id |-> NewId, name |-> req[1], args |-> req[2], response |-> Placeholder]

----------------------------------------------------------------------------
(* Init: the agent after __init__. *)

SystemTurn == ChatMessage("SYSTEM", Str(INSTRUCTIONS))

Init ==
    /\ messages = <<SystemTurn>>
    /\ pc = "idle"
    /\ response = <<>>
    /\ tool_calls = <<>>
    /\ task = <<>>
    /\ gather = "none"
    /\ firstExc = "none"
    /\ tc_responses = <<>>
    /\ k = 0
    /\ out = <<>>
    /\ outcome = "none"
    /\ calls = 0
    /\ passes = 0
    /\ chunks = 0
    /\ orphans = 0
    /\ passHist = <<SystemTurn>>
    /\ tools = GetToolsFromDecoratedMethods
    /\ streamTools = {}
    /\ pc2 = "idle"
    /\ response2 = <<>>
    /\ chunks2 = 0
    /\ outcome2 = "none"

----------------------------------------------------------------------------
(* The pieces of astream and _execute_tool_call that compute a value. *)

\* AppendTurn with the new turn put first instead of last
AppendTurn_Front(msgs, m) == <<m>> \o msgs

\* AppendTurn writing over the latest turn instead of adding one
AppendTurn_Overwrite(msgs, m) == [msgs EXCEPT ![Len(msgs)] = m]

\* self._messages.append(chat_message)
AppendTurn(msgs, m) == Append(msgs, m)

\* CommitAssistant without the `if response:` test
CommitAssistant_Always(msgs, resp) ==
    AppendTurn(msgs, ChatMessage("ASSISTANT", Str(resp)))

\* if response: self._messages.append(ChatMessage(role=ASSISTANT, content=response))
CommitAssistant(msgs, resp) ==
    IF resp # <<>> THEN AppendTurn(msgs, ChatMessage("ASSISTANT", Str(resp)))
                   ELSE msgs

\* HistoryAfterPass committing the text streamed so far on a failure too
\* (as a `finally` around the commit would)
HistoryAfterPass_CommitAnyway(msgs, resp, failed) ==
    IF resp # <<>> THEN Append(msgs, ChatMessage("ASSISTANT", Str(resp)))
                   ELSE msgs

\* The history a streaming pass leaves: an exception raised by the stream
\* leaves the async for and astream before the commit is reached.
HistoryAfterPass(msgs, resp, failed) ==
    IF failed THEN msgs ELSE CommitAssistant(msgs, resp)

\* str(result) of a tool body that returned; it records the invocation it
\* was computed for
ToolResult(tc, body) == [kind |-> body, of |-> tc.id]

\* _execute_tool_call up to the call of the method: "call" when the method
\* is entered, else the exception raised.
\*   tool_call.name        AttributeError when the object has no such attribute
\*   getattr(self, name)   AttributeError when the agent has no such attribute
\*   method(**args)        TypeError when args are not the method's parameters
\* (`if not method` never holds for a bound method; tool_call.args is a dict,
\* never None)
ExecOutcome(tc) ==
    IF tc.name = NoName THEN "AttributeError"
    ELSE IF tc.name \notin ToolMethods THEN "AttributeError"
    ELSE IF tc.args # Params(tc.name) THEN "TypeError"
    ELSE "call"

\* ToolsForStream handing the backend no tool at all
ToolsForStream_None(t) == {}

\* self._llm.astream(messages=self._messages, tools=self._tools)
ToolsForStream(t) == t

\* Accumulate keeping the latest chunk only (= instead of +=)
Accumulate_Replace(resp, chunk) == chunk

\* response += chunk
Accumulate(resp, chunk) == resp \o chunk

\* GatherDone satisfied by the first execution that returns
GatherDone_Any(t) == \E i \in 1..Len(t) : t[i].st = "returned"

\* asyncio.gather(...) has its result: every awaitable returned
GatherDone(t) == \A i \in 1..Len(t) : t[i].st = "returned"

\* asyncio.gather(*[...]): the results, in the order of the awaitables
GatherResults(t) == [i \in 1..Len(t) |-> t[i].val]

\* AttachResponse leaving the tool call as the backend built it
AttachResponse_Skip(tcs, rs, i) == tcs

\* for tool_call, tc_response in zip(tool_calls, tc_responses):
\*     tool_call.response = tc_response          (the i-th iteration)
AttachResponse(tcs, rs, i) == [tcs EXCEPT ![i].response = rs[i]]

Running(t) == {i \in 1..Len(t) : t[i].st = "running"}

TextItem(frag) == [kind |-> "text", val |-> frag]
ToolItem(tc) == [kind |-> "tool", val |-> tc]

\* Client.execute: response += chunk for every chunk that is no ToolCall
RECURSIVE ClientResponse(_)
ClientResponse(items) ==
    IF items = <<>> THEN <<>>
    ELSE IF Head(items).kind = "tool" THEN ClientResponse(Tail(items))
    ELSE Head(items).val \o ClientResponse(Tail(items))

\* asyncio.gather cancelled: every awaitable not yet finished is cancelled
CancelChildren(t) ==
    [i \in 1..Len(t) |->
        IF t[i].st = "running" THEN [t[i] EXCEPT !.st = "cancelled"] ELSE t[i]]

----------------------------------------------------------------------------
(* Actions. *)

\* Client.execute calls astream with a USER message; astream lines 20-24.
Call(q) ==
    /\ pc = "idle"
    /\ UNCHANGED <<tools, frame2>>
    /\ calls < MaxCalls
    /\ calls' = calls + 1
    /\ messages' = AppendTurn(messages, ChatMessage(CallerRole, Str(q)))
    /\ passHist' = messages'
    /\ response' = <<>>
    /\ tool_calls' = <<>>
    /\ task' = <<>>
    /\ gather' = "none"
    /\ firstExc' = "none"
    /\ tc_responses' = <<>>
    /\ k' = 0
    /\ out' = <<>>
    /\ outcome' = "running"
    /\ passes' = 1
    /\ chunks' = 0
    /\ streamTools' = ToolsForStream(tools)
    /\ pc' = "stream"
    /\ UNCHANGED orphans

\* async for chunk in stream: a str chunk (lines 28-30)
StreamText(frag) ==
    /\ pc = "stream"
    /\ UNCHANGED <<tools, streamTools, frame2>>
    /\ chunks < MaxChunks
    /\ chunks' = chunks + 1
    /\ response' = Accumulate(response, frag)
    /\ out' = Append(out, TextItem(frag))
    /\ pc' = "yield_text"
    /\ UNCHANGED <<messages, tool_calls, task, gather, firstExc, tc_responses,
                   k, outcome, calls, passes, orphans, passHist>>

\* the caller takes the text and asks for the next item (client.py 15-18)
ResumeText ==
    /\ pc = "yield_text"
    /\ UNCHANGED <<tools, streamTools, frame2>>
    /\ pc' = "stream"
    /\ UNCHANGED <<messages, response, tool_calls, task, gather, firstExc,
                   tc_responses, k, out, outcome, calls, passes, chunks,
                   orphans, passHist>>

\* async for chunk in stream: a ToolCall chunk (lines 26-27)
StreamToolCall(req) ==
    /\ pc = "stream"
    /\ UNCHANGED <<tools, streamTools, frame2>>
    /\ chunks < MaxChunks
    /\ chunks' = chunks + 1
    /\ tool_calls' = Append(tool_calls, NewToolCall(req))
    /\ UNCHANGED <<messages, pc, response, task, gather, firstExc,
                   tc_responses, k, out, outcome, calls, passes, orphans,
                   passHist>>

\* The stream ends (lines 32-36): the text is committed; with no tool call
\* astream returns, else every execution is handed to asyncio.gather.
StreamEnd ==
    /\ pc = "stream"
    /\ UNCHANGED <<tools, streamTools, frame2>>
    /\ messages' = HistoryAfterPass(messages, response, FALSE)
    /\ IF tool_calls = <<>>
         THEN /\ pc' = "idle"
              /\ outcome' = "returned"
              /\ UNCHANGED <<task, gather>>
         ELSE /\ pc' = "gather"
              /\ task' = [i \in 1..Len(tool_calls) |->
                             [st |-> "running", val |-> Placeholder]]
              /\ gather' = "waiting"
              /\ UNCHANGED outcome
    /\ UNCHANGED <<response, tool_calls, firstExc, tc_responses, k, out,
                   calls, passes, chunks, orphans, passHist>>

\* The model backend fails while the stream is consumed (line 25 raises).
StreamFail ==
    /\ pc = "stream"
    /\ UNCHANGED <<tools, streamTools, frame2>>
    /\ messages' = HistoryAfterPass(messages, response, TRUE)
    /\ pc' = "idle"
    /\ outcome' = "BackendError"
    /\ UNCHANGED <<response, tool_calls, task, gather, firstExc, tc_responses,
                   k, out, calls, passes, chunks, orphans, passHist>>

\* One execution of _execute_tool_call finishes (lines 44-52).
ExecuteToolCall(i) ==
    /\ gather = "waiting"
    /\ UNCHANGED <<tools, streamTools, frame2>>
    /\ i \in Running(task)
    /\ LET tc == tool_calls[i]
           r == ExecOutcome(tc)
       IN  IF r = "call"
             THEN /\ \E body \in BodyOutcomes :
                        task' = [task EXCEPT ![i] =
                                    [st |-> "returned", val |-> ToolResult(tc, body)]]
                  /\ UNCHANGED firstExc
             ELSE /\ task' = [task EXCEPT ![i] =
                                 [st |-> "raised", val |-> [kind |-> r, of |-> tc.id]]]
                  /\ firstExc' = IF firstExc = "none" THEN r ELSE firstExc
    /\ UNCHANGED <<messages, pc, response, tool_calls, gather, tc_responses,
                   k, out, outcome, calls, passes, chunks, orphans, passHist>>

\* await asyncio.gather(...) returns: every execution returned (line 36).
GatherReturn ==
    /\ pc = "gather"
    /\ UNCHANGED <<tools, streamTools, frame2>>
    /\ GatherDone(task)
    /\ gather' = "returned"
    /\ tc_responses' = GatherResults(task)
    /\ k' = 0
    /\ pc' = "for"
    /\ UNCHANGED <<messages, response, tool_calls, task, firstExc, out,
                   outcome, calls, passes, chunks, orphans, passHist>>

\* await asyncio.gather(...) raises the first exception of an execution
\* (no return_exceptions); the other executions are not cancelled. The
\* exception leaves astream.
GatherRaise ==
    /\ pc = "gather"
    /\ UNCHANGED <<tools, streamTools, frame2>>
    /\ firstExc # "none"
    /\ gather' = "raised"
    /\ outcome' = firstExc
    /\ pc' = "idle"
    /\ orphans' = orphans + Cardinality(Running(task))
    /\ UNCHANGED <<messages, response, tool_calls, task, firstExc,
                   tc_responses, k, out, calls, passes, chunks, passHist>>

\* An execution whose gather has raised runs on; nobody reads its result.
OrphanComplete ==
    /\ orphans > 0
    /\ UNCHANGED <<tools, streamTools, frame2>>
    /\ orphans' = orphans - 1
    /\ UNCHANGED <<messages, pc, response, tool_calls, task, gather, firstExc,
                   tc_responses, k, out, outcome, calls, passes, chunks,
                   passHist>>

\* One iteration of the for loop of lines 37-39.
YieldToolCall ==
    /\ pc = "for"
    /\ UNCHANGED <<tools, streamTools, frame2>>
    /\ k < Len(tool_calls)
    /\ k' = k + 1
    /\ tool_calls' = AttachResponse(tool_calls, tc_responses, k + 1)
    /\ out' = Append(out, ToolItem(tool_calls'[k + 1]))
    /\ pc' = "yield_tool"
    /\ UNCHANGED <<messages, response, task, gather, firstExc, tc_responses,
                   outcome, calls, passes, chunks, orphans, passHist>>

\* the caller takes the tool call and asks for the next item
ResumeTool ==
    /\ pc = "yield_tool"
    /\ UNCHANGED <<tools, streamTools, frame2>>
    /\ pc' = "for"
    /\ UNCHANGED <<messages, response, tool_calls, task, gather, firstExc,
                   tc_responses, k, out, outcome, calls, passes, chunks,
                   orphans, passHist>>

\* Lines 40-42: ChatMessage(role=ASSISTANT, content=tool_calls) is validated
\* against ChatMessage.content; when it is accepted astream recurses with it
\* (lines 20-24 of the recursive call), else the ValidationError leaves
\* astream.
BuildToolCallsMessage ==
    /\ pc = "for"
    /\ UNCHANGED <<tools, frame2>>
    /\ k = Len(tool_calls)
    /\ LET content == ToolCallList(tool_calls)
       IN  IF ValidContent(content)
             THEN /\ passes < MaxPasses
                  /\ messages' = AppendTurn(messages, ChatMessage("ASSISTANT", content))
                  /\ passHist' = messages'
                  /\ response' = <<>>
                  /\ tool_calls' = <<>>
                  /\ task' = <<>>
                  /\ gather' = "none"
                  /\ firstExc' = "none"
                  /\ tc_responses' = <<>>
                  /\ k' = 0
                  /\ passes' = passes + 1
                  /\ chunks' = 0
                  /\ streamTools' = ToolsForStream(tools)
                  /\ pc' = "stream"
                  /\ UNCHANGED outcome
             ELSE /\ pc' = "idle"
                  /\ outcome' = "ValidationError"
                  /\ UNCHANGED <<messages, passHist, response, tool_calls, task,
                                 gather, firstExc, tc_responses, k, passes,
                                 chunks, streamTools>>
    /\ UNCHANGED <<out, calls, orphans>>

\* The caller stops consuming while astream is suspended at a yield.
Abandon ==
    /\ pc \in {"yield_text", "yield_tool"}
    /\ UNCHANGED <<tools, streamTools, frame2>>
    /\ pc' = "idle"
    /\ outcome' = "abandoned"
    /\ UNCHANGED <<messages, response, tool_calls, task, gather, firstExc,
                   tc_responses, k, out, calls, passes, chunks, orphans,
                   passHist>>

\* The task consuming astream is cancelled while astream awaits the stream
\* (line 25) or asyncio.gather (line 36): CancelledError is raised there and
\* leaves astream; a cancelled gather cancels its unfinished awaitables.
Cancel ==
    /\ pc \in {"stream", "gather"}
    /\ UNCHANGED <<tools, streamTools, frame2>>
    /\ pc' = "idle"
    /\ outcome' = "CancelledError"
    /\ IF pc = "gather"
         THEN /\ task' = CancelChildren(task)
              /\ gather' = "cancelled"
         ELSE UNCHANGED <<task, gather>>
    /\ UNCHANGED <<messages, response, tool_calls, firstExc, tc_responses, k,
                   out, calls, passes, chunks, orphans, passHist>>

Next ==
    \/ \E q \in Queries : Call(q)
    \/ \E frag \in Fragments : StreamText(frag)
    \/ ResumeText
    \/ \E req \in Requests : StreamToolCall(req)
    \/ StreamEnd
    \/ StreamFail
    \/ \E i \in 1..MaxChunks : ExecuteToolCall(i)
    \/ GatherReturn
    \/ GatherRaise
    \/ OrphanComplete
    \/ YieldToolCall
    \/ ResumeTool
    \/ BuildToolCallsMessage
    \/ Abandon
    \/ Cancel

Spec == Init /\ [][Next]_vars

----------------------------------------------------------------------------
(* A second astream call on the same agent, issued while the first is       *)
(* suspended (two overlapping Client.execute calls). astream takes no lock. *)
(* Control passes between the two calls only where a call awaits: the       *)
(* stream (line 25) or asyncio.gather (line 36). The stream of the second   *)
(* call is drawn from the text fragments.                                   *)

\* the first call leaves control to other tasks
AtAwait == pc \in {"idle", "stream", "gather"}

\* astream lines 19-24, entered while the first call is under way
OverlapCall(q) ==
    /\ pc \in {"stream", "gather"}
    /\ pc2 = "idle"
    /\ calls < MaxCalls
    /\ calls' = calls + 1
    /\ messages' = AppendTurn(messages, ChatMessage(CallerRole, Str(q)))
    /\ response2' = <<>>
    /\ chunks2' = 0
    /\ outcome2' = "running"
    /\ streamTools' = ToolsForStream(tools)
    /\ pc2' = "stream"
    /\ UNCHANGED <<pc, response, tool_calls, task, gather, firstExc,
                   tc_responses, k, out, outcome, passes, chunks, orphans,
                   passHist, tools>>

\* lines 25, 28-30 of the second call; Client.execute takes the chunk
OverlapStreamText(frag) ==
    /\ pc2 = "stream"
    /\ AtAwait
    /\ chunks2 < MaxChunks
    /\ chunks2' = chunks2 + 1
    /\ response2' = Accumulate(response2, frag)
    /\ UNCHANGED <<messages, pc, response, tool_calls, task, gather, firstExc,
                   tc_responses, k, out, outcome, calls, passes, chunks,
                   orphans, passHist, tools, streamTools, pc2, outcome2>>

\* lines 32-35 of the second call: commit, no tool call, return
OverlapStreamEnd ==
    /\ pc2 = "stream"
    /\ AtAwait
    /\ messages' = HistoryAfterPass(messages, response2, FALSE)
    /\ pc2' = "idle"
    /\ outcome2' = "returned"
    /\ UNCHANGED <<pc, response, tool_calls, task, gather, firstExc,
                   tc_responses, k, out, outcome, calls, passes, chunks,
                   orphans, passHist, tools, streamTools, response2, chunks2>>

\* line 25 of the second call raises
OverlapStreamFail ==
    /\ pc2 = "stream"
    /\ AtAwait
    /\ messages' = HistoryAfterPass(messages, response2, TRUE)
    /\ pc2' = "idle"
    /\ outcome2' = "BackendError"
    /\ UNCHANGED <<pc, response, tool_calls, task, gather, firstExc,
                   tc_responses, k, out, outcome, calls, passes, chunks,
                   orphans, passHist, tools, streamTools, response2, chunks2>>

NextOverlap ==
    \/ Next
    \/ \E q \in Queries : OverlapCall(q)
    \/ \E frag \in Fragments : OverlapStreamText(frag)
    \/ OverlapStreamEnd
    \/ OverlapStreamFail

SpecOverlap == Init /\ [][NextOverlap]_vars

----------------------------------------------------------------------------
(* Properties. *)

IsPrefix(s, t) == Len(s) <= Len(t) /\ SubSeq(t, 1, Len(s)) = s

AssistantTurns(msgs) ==
    {i \in 1..Len(msgs) : msgs[i].role = "ASSISTANT"}

\* the exceptions an execution of _execute_tool_call raises
ToolExceptions == {"AttributeError", "TypeError"}

\* the dispatch of the current pass is over: gather returned or raised
DispatchOver == gather \in {"returned", "raised"}

\* the history holds a turn recording all tool calls of the current pass
ToolTurnInHistory ==
    \E m \in 1..Len(messages) :
        /\ messages[m].content.kind = "list"
        /\ Len(messages[m].content.val) = Len(tool_calls)
        /\ \A i \in 1..Len(tool_calls) :
               messages[m].content.val[i].id = tool_calls[i].id

\* C1: a respond call whose stream was consumed to its end and held no tool
\* invocation has returned after exactly one streaming pass, and the history
\* gained, after the caller's turn, exactly one ASSISTANT turn holding the
\* accumulated text when that text is non-empty and no turn when it is empty.
C1_ZeroInvocationsOnePass ==
    ( /\ calls > 0
      /\ pc \notin {"stream", "yield_text"}
      /\ outcome \notin {"BackendError", "abandoned", "CancelledError"}
      /\ tool_calls = <<>> )
    => /\ pc = "idle"
       /\ outcome = "returned"
       /\ passes = 1
       /\ IF response # <<>>
            THEN /\ Len(messages) = Len(passHist) + 1
                 /\ IsPrefix(passHist, messages)
                 /\ messages[Len(messages)] = ChatMessage("ASSISTANT", Str(response))
            ELSE messages = passHist

\* a call that streamed two non-empty fragments and no invocation has returned
C1_Witness ==
    /\ pc = "idle"
    /\ outcome = "returned"
    /\ tool_calls = <<>>
    /\ response = <<"a", "a">>
    /\ Len(out) = 2

\* C2 (as claimed): once the dispatch of a pass with N invocations is over,
\* there are exactly N results and the i-th result was computed for the i-th
\* invocation's id.
C2_Claim ==
    DispatchOver =>
        /\ Len(tc_responses) = Len(tool_calls)
        /\ \A i \in 1..Len(tool_calls) : tc_responses[i].of = tool_calls[i].id

\* C3 (as claimed): an execution for a name that is no registered tool ends
\* by returning an error-valued result, and the call does not end with the
\* exception of the lookup.
C3_Claim ==
    \A i \in 1..Len(task) :
        ( /\ tool_calls[i].name \notin ToolMethods \cup {NoName}
          /\ task[i].st # "running" )
        => /\ task[i].st = "returned"
           /\ task[i].val.kind = "error"
           /\ outcome \notin ToolExceptions

\* C4 (as claimed): an execution of a registered tool whose arguments lack a
\* required parameter ends by returning an error-valued result.
C4_Claim ==
    \A i \in 1..Len(task) :
        ( /\ tool_calls[i].name \in ToolMethods
          /\ ~ (Params(tool_calls[i].name) \subseteq tool_calls[i].args)
          /\ task[i].st # "running" )
        => /\ task[i].st = "returned"
           /\ task[i].val.kind = "error"

\* C5 (as claimed): when the pass of two or more siblings, one failed and one
\* successful, is over, the call has not ended with the failure, every
\* sibling has its result, and one turn of the history records them all.
C5_Claim ==
    ( /\ pc = "idle"
      /\ outcome # "abandoned"
      /\ DispatchOver
      /\ \E i \in 1..Len(task) :
             \/ task[i].st = "raised"
             \/ (task[i].st = "returned" /\ task[i].val.kind = "error")
      /\ \E j \in 1..Len(task) :
             task[j].st = "returned" /\ task[j].val.kind = "ok" )
    => /\ outcome \notin ToolExceptions
       /\ Len(tc_responses) = Len(tool_calls)
       /\ ToolTurnInHistory

\* C6 (as claimed): a call in which every pass requested an invocation, and
\* which has ended, ended with RecursionLimitError.
C6_Claim ==
    ( /\ pc = "idle"
      /\ gather = "returned"
      /\ outcome # "abandoned" )
    => outcome = "RecursionLimitError"

\* C7: the first turn of the history is the SYSTEM turn holding the
\* instructions given at construction, and no other turn has role SYSTEM.
C7_SystemTurnFirst ==
    /\ messages[1] = SystemTurn
    /\ \A i \in 2..Len(messages) : messages[i].role # "SYSTEM"

\* two calls were made, one left a text turn, the latest was abandoned
C7_Witness ==
    /\ calls >= 2
    /\ pc = "idle"
    /\ outcome = "abandoned"
    /\ Len(messages) >= 4

\* C8: every step leaves the history it found as a prefix of the history it
\* leaves: turns are only ever added at the end.
C8_AppendOnly == [][IsPrefix(messages, messages')]_vars

\* the history grew five times: two USER turns, two ASSISTANT turns
C8_Witness ==
    /\ Len(messages) >= 5
    /\ Cardinality(AssistantTurns(messages)) >= 2

\* C9: when the model backend failed during a streaming pass, the call has
\* ended with that failure and the history is the one the pass started from:
\* the text streamed so far is in no turn.
C9_NoPartialCommit ==
    outcome = "BackendError" =>
        /\ pc = "idle"
        /\ messages = passHist

\* the backend failed after text was forwarded to the caller
C9_Witness ==
    /\ outcome = "BackendError"
    /\ response # <<>>
    /\ Len(out) >= 2

\* C10 (as claimed): a call whose first pass requested invocations, all
\* executed and forwarded, ends by returning after a second pass, with the
\* turn recording the invocations in the history.
C10_Claim ==
    ( /\ pc = "idle"
      /\ gather = "returned"
      /\ k = Len(tool_calls)
      /\ outcome # "abandoned" )
    => /\ outcome = "returned"
       /\ passes = 2
       /\ ToolTurnInHistory

\* C11 (as claimed): no two respond calls are under way on the agent at
\* once, and the ASSISTANT turn a call commits directly follows the history
\* its pass started from: no turn of another call lies in between.
C11_Claim ==
    /\ ~ (pc # "idle" /\ pc2 # "idle")
    /\ ( /\ pc = "idle"
         /\ outcome = "returned"
         /\ response # <<>> )
       => /\ Len(messages) > Len(passHist)
          /\ messages[Len(passHist) + 1] = ChatMessage("ASSISTANT", Str(response))

\* C12 (as claimed): after the caller gave up a call, no execution that was
\* dispatched in it is left cancelled (each ran or still runs to its end),
\* and no result of the pass is in the history.
C12_Claim ==
    outcome \in {"abandoned", "CancelledError"} =>
        /\ \A i \in 1..Len(task) : task[i].st # "cancelled"
        /\ ~ ToolTurnInHistory

\* the outcomes of a call given up by its caller or failed by the backend
GivenUp == {"BackendError", "abandoned", "CancelledError"}

\* C13 (as claimed): with every tool execution completing, a call ends only
\* after a pass that requested no invocation, and then by returning.
C13_Claim ==
    ( /\ pc = "idle"
      /\ calls > 0
      /\ outcome \notin GivenUp
      /\ \A i \in 1..Len(task) : task[i].st = "returned" )
    => /\ outcome = "returned"
       /\ tool_calls = <<>>

\* the tool calls the current call has forwarded to its caller, in order
Forwarded == SelectSeq(out, LAMBDA item : item.kind = "tool")

\* the ids of the invocations buffered in the current pass
PassIds == {tool_calls[i].id : i \in 1..Len(tool_calls)}

\* C14: while the stream of a pass is consumed none of its invocations has
\* been forwarded; every forwarded invocation carries the result computed
\* for it; and a result once written to an invocation is never written anew.
C14_ForwardedWithResult ==
    /\ [] ( /\ pc \in {"stream", "yield_text"} =>
                \A n \in 1..Len(Forwarded) : Forwarded[n].val.id \notin PassIds
            /\ \A n \in 1..Len(Forwarded) :
                   /\ Forwarded[n].val.response # Placeholder
                   /\ Forwarded[n].val.response.of = Forwarded[n].val.id )
    /\ [][ \A i \in 1..Len(tool_calls) :
               ( /\ i <= Len(tool_calls')
                 /\ tool_calls'[i].id = tool_calls[i].id
                 /\ tool_calls[i].response # Placeholder )
               => tool_calls'[i].response = tool_calls[i].response ]_vars

\* two invocations were dispatched and both forwarded
C14_Witness ==
    /\ pc = "yield_tool"
    /\ Len(tool_calls) = 2
    /\ Len(Forwarded) = 2

\* C15: the executions of a pass are started together, one per buffered
\* invocation, and while any of them is still running the pass has not moved
\* on: the loop waits in gather (or the call has ended), nothing of the pass
\* has been forwarded, and the history is the one the commit of the text
\* left (no turn records the invocations, no further pass has added to it).
C15_JoinBarrier ==
    /\ gather = "waiting" => Len(task) = Len(tool_calls)
    /\ Running(task) # {} =>
           /\ pc \in {"gather", "idle"}
           /\ Forwarded = <<>>
           /\ ~ ToolTurnInHistory
           /\ messages = IF response # <<>>
                           THEN Append(passHist, ChatMessage("ASSISTANT", Str(response)))
                           ELSE passHist

\* of two executions one has returned and the other is still running
C15_Witness ==
    /\ pc = "gather"
    /\ \E i \in 1..Len(task) : task[i].st = "returned"
    /\ \E j \in 1..Len(task) : task[j].st = "running"

\* the turns of the history that record exactly the invocations of the
\* current pass, with role TOOL_RESULT
ToolResultTurns ==
    {m \in 1..Len(messages) :
        /\ messages[m].role = "TOOL_RESULT"
        /\ messages[m].content.kind = "list"
        /\ [i \in 1..Len(messages[m].content.val) |-> messages[m].content.val[i].id]
             = [i \in 1..Len(tool_calls) |-> tool_calls[i].id]}

\* C16 (as claimed): once a pass that buffered invocations is over (all were
\* executed and forwarded), the history holds exactly one TOOL_RESULT turn
\* with all of them, placed after everything the pass had committed before.
C16_Claim ==
    ( /\ gather = "returned"
      /\ k = Len(tool_calls)
      /\ pc \notin {"for", "yield_tool"}
      /\ outcome \notin GivenUp )
    => /\ Cardinality(ToolResultTurns) = 1
       /\ \A m \in ToolResultTurns : m > Len(passHist)

\* C17 (as claimed): while a sibling is still executing, an invocation whose
\* result is available has been forwarded to the caller.
C17_Claim ==
    \A i \in 1..Len(task) :
        ( /\ gather = "waiting"
          /\ task[i].st = "returned"
          /\ Running(task) # {} )
        => \E n \in 1..Len(Forwarded) : Forwarded[n].val.id = tool_calls[i].id

\* C17 (amended): an invocation of the pass has been forwarded only when
\* every execution of the pass has returned and gather has handed over the
\* results: none reaches the caller while a sibling is still executing.
C17_ForwardAfterAll ==
    (\E n \in 1..Len(Forwarded) : Forwarded[n].val.id \in PassIds)
    => /\ gather = "returned"
       /\ Len(task) = Len(tool_calls)
       /\ \A i \in 1..Len(task) : task[i].st = "returned"

\* the first of two invocations is forwarded, both executions having returned
C17_Witness ==
    /\ pc = "yield_tool"
    /\ k = 1
    /\ Len(task) = 2
    /\ Len(Forwarded) = 1

\* C18: self._tools is, in every state, the descriptor set derived at
\* construction (one descriptor per tool method), and every streaming pass
\* begun so far was handed exactly that set.
C18_ToolsFixed ==
    /\ tools = GetToolsFromDecoratedMethods
    /\ {t.name : t \in tools} = ToolMethods
    /\ calls > 0 => streamTools = tools

\* the second call on the agent is streaming, a first one having dispatched
C18_Witness ==
    /\ calls = 2
    /\ pc = "stream"
    /\ chunks = 1
    /\ orphans > 0

\* the stream of the current pass was consumed to its end (lines 32-33 ran)
PassCompleted ==
    \/ pc \in {"gather", "for", "yield_tool"}
    \/ pc = "idle" /\ (outcome = "returned" \/ gather # "none")

\* C19: the text accumulated by a pass is the in-order concatenation of the
\* fragments forwarded to the caller (what Client.execute adds up), and once
\* the pass has completed that text, when non-empty, is the content of the
\* one ASSISTANT turn the pass appended; when empty no turn was appended.
C19_TextMatchesForwarded ==
    /\ response = ClientResponse(out)
    /\ PassCompleted =>
           IF ClientResponse(out) # <<>>
             THEN /\ Len(messages) = Len(passHist) + 1
                  /\ messages[Len(messages)].role = "ASSISTANT"
                  /\ messages[Len(messages)].content = Str(ClientResponse(out))
             ELSE messages = passHist

\* a pass forwarded "a" then "b" and returned
C19_Witness ==
    /\ pc = "idle"
    /\ outcome = "returned"
    /\ response = <<"a", "b">>

\* the ids of a sequence of tool calls, in order
Ids(tcs) == [i \in 1..Len(tcs) |-> tcs[i].id]

\* C20 (as claimed): the invocations forwarded so far are the first ones the
\* stream requested, in the order requested, and once all are forwarded and
\* the pass has moved on, a turn of the history lists them in that order.
C20_Claim ==
    /\ \A n \in 1..Len(Forwarded) :
           /\ n <= Len(tool_calls)
           /\ Forwarded[n].val.id = tool_calls[n].id
    /\ ( /\ gather = "returned"
         /\ Len(Forwarded) = Len(tool_calls)
         /\ pc \notin {"for", "yield_tool"}
         /\ outcome \notin GivenUp )
       => \E m \in 1..Len(messages) :
              /\ messages[m].content.kind = "list"
              /\ Ids(messages[m].content.val) = Ids(tool_calls)

====
